---- MODULE Spec2Model ----
(***************************************************************************)
(* FileSyncer tracking engine (src/src/file_tracker_core.py).              *)
(*                                                                         *)
(* Strings that the code inspects character by character (paths, regex     *)
(* targets) are sequences of one-character strings.  A JSON / Python value *)
(* is a record [t |-> type tag, m |-> mapping]; m is the key -> value      *)
(* mapping of a dict and the empty mapping for every other type.           *)
(***************************************************************************)
EXTENDS Integers, Sequences, FiniteSets, TLC

\* ------------------------------------------------------------------ bounds

\* Largest metadata generation of a file (0 = the file does not exist).
MaxVer == 2
\* Largest retries argument the callers pass to safe_read_config.
MaxRetries == 2

\* ------------------------------------------------------- the modelled tree

\* The process's working directory, "/d".
Cwd == <<"/", "d">>
\* Directories of the modelled tree: "/", "/d", "/d/s".
Dirs == { <<"/">>, <<"/", "d">>, <<"/", "d", "/", "s">> }
\* Paths that may hold a regular file: "/d/a", "/d/s/x".
FilePaths == { <<"/", "d", "/", "a">>, <<"/", "d", "/", "s", "/", "x">> }
\* What a caller passes to add_file: a file in relative form, a file in
\* absolute form, a directory, and "z", which never exists.
AddFilePaths == { <<"a">>, <<"/", "d", "/", "s", "/", "x">>, <<"s">>, <<"z">> }
\* What a caller passes to add_dir: the directory "/d" in relative form
\* ("."), a regular file, and the missing "z".
AddDirPaths == { <<".">>, <<"/", "d", "/", "a">>, <<"z">> }
\* What a caller passes to remove_file: a file in relative and in absolute
\* form, a directory, and the missing "z".
RemovePaths == { <<"a">>, <<"/", "d", "/", "a">>, <<"/", "d", "/", "s">>, <<"z">> }
\* The files another program rewrites in place.
RewrittenPaths == { <<"/", "d", "/", "a">> }
\* What a caller passes as root: "/d/s" ("/d/a" lies outside it, "/d/s/x"
\* inside).
Roots == { <<"/", "d", "/", "s">> }
\* Every path text the program handles.
KnownPaths == Dirs \cup FilePaths \cup AddFilePaths \cup AddDirPaths
              \cup RemovePaths \cup Roots

\* ------------------------------------------------------------ os.path

RECURSIVE Split(_)
\* str.split("/"): the pieces between the separators, empty pieces included.
Split(p) ==
    IF p = <<>> THEN << <<>> >>
    ELSE LET r == Split(Tail(p))
         IN  IF Head(p) = "/" THEN << <<>> >> \o r
             ELSE << <<Head(p)>> \o Head(r) >> \o Tail(r)

RECURSIVE NormComps(_, _)
\* posixpath.normpath on the pieces: "" and "." dropped, ".." pops.
NormComps(cs, acc) ==
    IF cs = <<>> THEN acc
    ELSE LET c == Head(cs)
         IN  IF c = <<>> \/ c = <<".">> THEN NormComps(Tail(cs), acc)
             ELSE IF c = <<".", ".">>
                  THEN NormComps(Tail(cs),
                         IF acc = <<>> THEN acc ELSE SubSeq(acc, 1, Len(acc) - 1))
                  ELSE NormComps(Tail(cs), Append(acc, c))

RECURSIVE JoinComps(_)
\* "/".join(pieces) with a leading separator per piece.
JoinComps(cs) ==
    IF cs = <<>> THEN <<>> ELSE <<"/">> \o Head(cs) \o JoinComps(Tail(cs))

is_absolute(p) == Len(p) > 0 /\ p[1] = "/"

\* os.path.join(a, b).
PathJoin(a, b) ==
    IF is_absolute(b) THEN b
    ELSE IF a # <<>> /\ a[Len(a)] = "/" THEN a \o b ELSE a \o <<"/">> \o b

\* The normalised components of the absolute form of each known path,
\* computed once.
AbsCompsOf == [p \in KnownPaths |-> NormComps(Split(PathJoin(Cwd, p)), <<>>)]
AbsComps(p) == AbsCompsOf[p]

\* os.path.abspath(p), computed once for each known path.
AbsPathOf ==
    [p \in KnownPaths |->
        LET cs == AbsComps(p) IN IF cs = <<>> THEN <<"/">> ELSE JoinComps(cs)]
AbsPath(p) == AbsPathOf[p]

\* os.path.realpath(p): the modelled tree holds no symbolic link, so the
\* canonical form is the normalised absolute form.
RealPath(p) == AbsPath(p)

\* os.path.basename(p): what follows the last separator.
BasenameOf == [p \in KnownPaths |-> LET s == Split(p) IN s[Len(s)]]
Basename(p) == BasenameOf[p]

\* os.path.isfile / os.path.isdir / os.path.exists in file system f.
IsFile(f, p) == AbsPath(p) \in DOMAIN f /\ f[AbsPath(p)] > 0
IsDir(p) == AbsPath(p) \in Dirs
Exists(f, p) == IsFile(f, p) \/ IsDir(p)

RECURSIVE CommonLen(_, _)
\* Length of the longest common prefix of two component lists.
CommonLen(a, b) ==
    IF a = <<>> \/ b = <<>> \/ Head(a) # Head(b) THEN 0
    ELSE 1 + CommonLen(Tail(a), Tail(b))

\* os.path.relpath(path, start), computed once for each path and root.
RelPathOf ==
    [pr \in KnownPaths \X Roots |->
        LET sl == AbsComps(pr[2])
            pl == AbsComps(pr[1])
            i  == CommonLen(sl, pl)
            rel == [k \in 1..(Len(sl) - i) |-> <<".", ".">>]
                   \o SubSeq(pl, i + 1, Len(pl))
        IN  IF rel = <<>> THEN <<".">> ELSE Tail(JoinComps(rel))]
RelPath(path, start) == RelPathOf[<<path, start>>]

\* os.path.commonpath([a, b]) for absolute a, b, computed once for each
\* path and root.
CommonPathOf ==
    [pr \in KnownPaths \X Roots |->
        LET ac == AbsComps(pr[1])
            bc == AbsComps(pr[2])
            cs == SubSeq(ac, 1, CommonLen(ac, bc))
        IN  IF cs = <<>> THEN <<"/">> ELSE JoinComps(cs)]
CommonPath(a, b) == CommonPathOf[<<a, b>>]

\* OSManager.get_abspath(path) with the defaults: defined when the path
\* exists; InvalidPathError otherwise (Resolves is the guard).
Resolves(f, p) == Exists(f, p)
get_abspath(p) == RealPath(p)

\* OSManager.get_rel_path(path, root): POSIX relpath raises ValueError only
\* on an empty path.
get_rel_path(path, root) == IF path = <<>> THEN <<>> ELSE RelPath(path, root)

\* FileInfoCollector.is_outside_root(path, root), root existing.
is_outside_root(path, root) ==
    CommonPath(get_abspath(path), get_abspath(root)) # get_abspath(root)


\* ------------------------------------------------- JSON / Python values

EmptyMap == <<>>
\* A dict with mapping m; any other value of type tag t carrying scalar v.
Dict(m) == [t |-> "dict", v |-> 0, m |-> m]
Scalar(t, v) == [t |-> t, v |-> v, m |-> EmptyMap]
IsDictVal(x) == x.t = "dict"

\* A dict key that is not a str (a Python int key) is the sequence
\* <<"#int", digits>>; every other sequence of characters is a str key.
IsStrKey(k) == k = <<>> \/ k[1] # "#int"

\* isinstance(value, type(default)): bool is a subclass of int.
IsInstance(value, default) ==
    value.t = default.t \/ (value.t = "bool" /\ default.t = "int")

\* ConfigFileTemplate.get_default_config(): {"tracked": {}}.
get_default_config == [tracked |-> Dict(EmptyMap)]

\* The template argument left at None.
NoTemplate == [none |-> TRUE]

\* The dict comprehension of validate_config_structure: the entries whose
\* key is a str and whose value is a dict.
KeepEntries(m) ==
    [k \in {j \in DOMAIN m : IsStrKey(j) /\ IsDictVal(m[j])} |-> m[k]]

\* One iteration of validate_config_structure's loop.
ValidateKey(config, key, default_value) ==
    IF key \notin DOMAIN config THEN default_value
    ELSE IF IsDictVal(default_value)
         THEN IF ~IsDictVal(config[key]) THEN default_value
              ELSE Dict(KeepEntries(config[key].m))
         ELSE IF IsInstance(config[key], default_value) THEN config[key]
              ELSE default_value

\* `template or ConfigFileTemplate.get_default_config()`: None and the empty
\* dict are both falsy.
EffectiveTemplate(template) ==
    IF template = NoTemplate \/ DOMAIN template = {} THEN get_default_config
    ELSE template

\* validate_config_structure returning the mapping as it was given.
validate_config_structure_AsIs(config, template) == config

\* ConfigFileHandler.validate_config_structure(config, template), config a
\* dict (a non-dict raises ValueError; see LoadStep).
validate_config_structure(config, template) ==
    LET tpl == EffectiveTemplate(template)
    IN  [key \in DOMAIN tpl |-> ValidateKey(config, key, tpl[key])]

\* The "tracked" mapping of a configuration dict.
Tracked(config) == config["tracked"].m

\* config with its "tracked" mapping replaced by m.
WithTracked(config, m) == [config EXCEPT !["tracked"] = Dict(m)]

\* ------------------------------------------------------ the document file

FileAbsent == [st |-> "absent"]
FileMalformed == [st |-> "malformed"]
\* A file holding the JSON text of value x.
FileJson(x) == [st |-> "json", val |-> x]

\* json.dump turns a key that is not a str into its str form.
StrKey(k) == IF IsStrKey(k) THEN k ELSE Tail(k)
DumpMap(m) ==
    [k \in {StrKey(j) : j \in DOMAIN m} |->
        LET src == CHOOSE j \in DOMAIN m : StrKey(j) = k IN m[src]]

\* JsonHandler.json_write(content, path): the file then holds content's
\* JSON text.  Top-level keys are str already.
json_write(content) ==
    FileJson(Dict([key \in DOMAIN content |->
        IF IsDictVal(content[key]) THEN Dict(DumpMap(content[key].m))
        ELSE content[key]]))

\* How a write of the document file can end: done, or refused at open()
\* with an OSError (the file keeps its content).
WriteOutcomes == {"ok", "denied"}
Written(old, new, w) == IF w = "ok" THEN new ELSE old

\* create_template_config leaving text in the file that does not parse.
create_template_config_Garbage(c) == FileMalformed

\* ConfigFileHandler.create_template_config() on handler configuration c.
create_template_config(c) == json_write(WithTracked(c, Tracked(c)))

\* write_config writing the template in place of the given configuration.
write_config_Template(config) == json_write(get_default_config)

\* ConfigFileHandler.write_config(config, config_path).
write_config(config) == json_write(WithTracked(config, Tracked(config)))

\* --------------------------------------------------------- file metadata

\* FileInfoCollector.get_size / get_mtime: the file's current generation.
get_size(f, p) == f[p]
get_mtime(f, p) == f[p]

\* FileInfoCollector.get_file_info(path, root) raises InvalidPathError
\* unless path and root both exist.
InfoDefined(f, path, root) == Resolves(f, path) /\ Resolves(f, root)
get_file_info(f, path, root) ==
    LET abs_path == get_abspath(path)
    IN  Dict([path |-> abs_path,
              rel_path |-> get_rel_path(abs_path, root),
              size |-> get_size(f, abs_path),
              mtime |-> get_mtime(f, abs_path),
              outside_root |-> is_outside_root(abs_path, root)])

\* ------------------------------------------------------------ FileFilter

\* A filter: the pattern (<<>> when None or empty, which compiles to no
\* regex) and the only_match_filename flag.  Patterns are literal texts.
NoFilter == [pattern |-> <<>>, only_match_filename |-> TRUE]
Filters == { NoFilter, [pattern |-> <<"a">>, only_match_filename |-> TRUE] }

\* regex.match(target): the pattern matches at the start of target.
RegexMatch(pattern, target) ==
    Len(pattern) <= Len(target) /\ SubSeq(target, 1, Len(pattern)) = pattern

\* FileFilter.is_match(full_path).
is_match(flt, full_path) ==
    IF flt.pattern = <<>> THEN TRUE
    ELSE RegexMatch(flt.pattern,
           IF flt.only_match_filename THEN Basename(full_path) ELSE full_path)


\* ------------------------------------------------------------------ state

VARIABLES
    fs,          \* regular files: path -> metadata generation, 0 when absent
    disk,        \* the document file at config_path
    handler_up,  \* a ConfigFileHandler has been constructed
    hconfig,     \* ConfigFileHandler.config
    tracker,     \* the Tracker's flags and filter; up = constructed
    tconfig,     \* Tracker.config
    shared,      \* Tracker.config and ConfigFileHandler.config are one object
    load,        \* the safe_read_config call in progress
    last,        \* the call that returned last, its arguments and outcome
    probe,       \* argument and result of a pure function under test
    scan         \* the directory scan of an add_dir call in progress

vars == <<fs, disk, handler_up, hconfig, tracker, tconfig, shared, load, last, probe, scan>>

\* A record a user could have written into the document by hand.
HandRecord(path, rel) ==
    Dict([path |-> path, rel_path |-> rel, size |-> 1, mtime |-> 1,
          outside_root |-> FALSE])

\* A hand-edited document: a record keyed by the directory "/d/s" whose
\* path field names the file "/d/s/x", an entry that is a number, and an
\* unknown top-level key.
HandDoc ==
    FileJson(Dict([
        tracked |-> Dict(
            <<"/", "d", "/", "s">> :> HandRecord(<<"/", "d", "/", "s", "/", "x">>, <<"x">>)
            @@ <<"/", "d", "/", "a">> :> Scalar("int", 1)),
        extra |-> Scalar("int", 1)]))

\* What an editor or another program can leave in the document file:
\* malformed text, a JSON list, and the hand-edited document.
ExternalDocs ==
    { FileMalformed,
      FileJson(Scalar("list", 0)),
      HandDoc }

NoLoad == [pc |-> "idle"]
NoTracker == [up |-> FALSE, auto_save |-> TRUE, auto_clean |-> TRUE,
              file_filter |-> NoFilter]
NoProbe == [fn |-> "none"]
NoScan == [pc |-> "idle"]
Idle == load.pc = "idle"

Init ==
    /\ fs = [q \in FilePaths |-> 1]
    /\ disk \in {FileAbsent} \cup ExternalDocs
    /\ handler_up = FALSE
    /\ hconfig = get_default_config
    /\ tracker = NoTracker
    /\ tconfig = get_default_config
    /\ shared = FALSE
    /\ load = NoLoad
    /\ last = [op |-> "none"]
    /\ probe = NoProbe
    /\ scan = NoScan

\* ------------------------------------------------------ ConfigFileHandler

\* ConfigFileHandler.__init__ writing the template over an existing file.
Construct_Overwrites(w) ==
    /\ ~handler_up
    /\ Idle
    /\ hconfig' = get_default_config
    /\ disk' = Written(disk, create_template_config(get_default_config), w)
    /\ handler_up' = (w = "ok")
    /\ last' = [op |-> "construct", outcome |-> IF w = "ok" THEN "ok" ELSE "oserror",
                existed |-> disk.st # "absent"]
    /\ UNCHANGED <<fs, tracker, tconfig, shared, load, probe, scan>>

\* ConfigFileHandler.__init__: the template is written when no file exists;
\* a failing write leaves the caller without a handler.
Construct(w) ==
    /\ ~handler_up
    /\ Idle
    /\ disk.st # "absent" => w = "ok"
    /\ hconfig' = get_default_config
    /\ disk' = IF disk.st = "absent"
               THEN Written(disk, create_template_config(get_default_config), w)
               ELSE disk
    /\ handler_up' = (w = "ok")
    /\ last' = [op |-> "construct", outcome |-> IF w = "ok" THEN "ok" ELSE "oserror",
                existed |-> disk.st # "absent"]
    /\ UNCHANGED <<fs, tracker, tconfig, shared, load, probe, scan>>

\* safe_read_config(retries=n) is entered: no read has been made yet.  When
\* the call directly follows write_config of the document the previous call
\* returned, `first` remembers that document.  A Tracker lives from the
\* load it is built on to the next one (CoreInstance.init_tracker builds a
\* Tracker per request): the one in use is dropped here, and the dict it
\* shared with the handler stays the handler's config.
StartLoad(n) ==
    /\ handler_up
    /\ Idle
    /\ load' = [pc |-> "run", i |-> 0, n |-> n, perr |-> 0, ext |-> FALSE,
                first |-> IF last.op = "save" /\ last.outcome = "ok"
                          THEN [some |-> TRUE, doc |-> hconfig]
                          ELSE [some |-> FALSE]]
    /\ last' = [op |-> "loading"]
    /\ tracker' = NoTracker
    /\ tconfig' = get_default_config
    /\ shared' = FALSE
    /\ UNCHANGED <<fs, disk, handler_up, hconfig, probe, scan>>

\* The loop making one pass more than retries.
LoopOver_OnePassMore(i, n) == i > n

\* `for _ in range(retries)` is over once i passes have been made.
LoopOver(i, n) == i >= n

\* The record of a finished safe_read_config call.
LoadResult(outcome, reads, perr, parsed) ==
    [op |-> "load", outcome |-> outcome, n |-> load.n, reads |-> reads,
     perr |-> perr, parsed |-> parsed, ext |-> load.ext, first |-> load.first]

\* safe_read_config treating validation's ValueError like a JSONDecodeError.
LoadStep_RetriesValueError(w) ==
    /\ load.pc = "run"
    /\ ~(~LoopOver(load.i, load.n) /\ disk.st # "absent") => w = "ok"
    /\ IF LoopOver(load.i, load.n)
       THEN \* the loop is over: RuntimeError
            /\ last' = LoadResult("exhausted", load.i, load.perr, FALSE)
            /\ load' = NoLoad
            /\ UNCHANGED <<disk, hconfig, shared>>
       ELSE IF disk.st = "absent"
       THEN \* read_config raises FileNotFoundError: re-raised
            /\ last' = LoadResult("ioerror", load.i + 1, load.perr, FALSE)
            /\ load' = NoLoad
            /\ UNCHANGED <<disk, hconfig, shared>>
       ELSE IF disk.st = "malformed" \/ ~IsDictVal(disk.val)
       THEN \* any error of parsing or validating: the template, the next pass
            /\ disk' = Written(disk, create_template_config(hconfig), w)
            /\ IF w = "ok"
               THEN /\ load' = [load EXCEPT !.i = @ + 1, !.perr = @ + 1]
                    /\ last' = last
               ELSE /\ load' = NoLoad
                    /\ last' = LoadResult("oserror", load.i + 1, load.perr + 1, FALSE)
            /\ UNCHANGED <<hconfig, shared>>
       ELSE \* self.config is rebound to the validated dict and returned
            /\ hconfig' = validate_config_structure(disk.val.m, NoTemplate)
            /\ shared' = shared
            /\ last' = LoadResult("ok", load.i + 1, load.perr, TRUE)
            /\ load' = NoLoad
            /\ UNCHANGED disk
    /\ UNCHANGED <<fs, handler_up, tracker, tconfig, probe, scan>>

\* One pass of safe_read_config's loop, or the RuntimeError after it.
LoadStep(w) ==
    /\ load.pc = "run"
    /\ ~(~LoopOver(load.i, load.n) /\ disk.st = "malformed") => w = "ok"
    /\ IF LoopOver(load.i, load.n)
       THEN \* the loop is over: RuntimeError
            /\ last' = LoadResult("exhausted", load.i, load.perr, FALSE)
            /\ load' = NoLoad
            /\ UNCHANGED <<disk, hconfig, shared>>
       ELSE IF disk.st = "absent"
       THEN \* read_config raises FileNotFoundError: re-raised
            /\ last' = LoadResult("ioerror", load.i + 1, load.perr, FALSE)
            /\ load' = NoLoad
            /\ UNCHANGED <<disk, hconfig, shared>>
       ELSE IF disk.st = "malformed"
       THEN \* JSONDecodeError: create_template_config, then the next pass
            /\ disk' = Written(disk, create_template_config(hconfig), w)
            /\ IF w = "ok"
               THEN /\ load' = [load EXCEPT !.i = @ + 1, !.perr = @ + 1]
                    /\ last' = last
               ELSE /\ load' = NoLoad
                    /\ last' = LoadResult("oserror", load.i + 1, load.perr + 1, FALSE)
            /\ UNCHANGED <<hconfig, shared>>
       ELSE IF ~IsDictVal(disk.val)
       THEN \* validate_config_structure raises ValueError: re-raised
            /\ last' = LoadResult("valueerror", load.i + 1, load.perr, TRUE)
            /\ load' = NoLoad
            /\ UNCHANGED <<disk, hconfig, shared>>
       ELSE \* self.config is rebound to the validated dict and returned
            /\ hconfig' = validate_config_structure(disk.val.m, NoTemplate)
            /\ shared' = shared
            /\ last' = LoadResult("ok", load.i + 1, load.perr, TRUE)
            /\ load' = NoLoad
            /\ UNCHANGED disk
    /\ UNCHANGED <<fs, handler_up, tracker, tconfig, probe, scan>>

\* ConfigFileHandler.write_config(doc, config_path) with doc the document
\* the preceding safe_read_config returned.
SaveLoaded(w) ==
    /\ handler_up
    /\ Idle
    /\ last.op = "load" /\ last.outcome = "ok"
    /\ disk' = Written(disk, write_config(hconfig), w)
    /\ last' = [op |-> "save", outcome |-> IF w = "ok" THEN "ok" ELSE "oserror"]
    /\ UNCHANGED <<fs, handler_up, hconfig, tracker, tconfig, shared, load, probe, scan>>


\* ---------------------------------------------------------------- Tracker

\* Tracker.__init__ on the dict safe_read_config has just returned, which
\* is the handler's own config object: both now hold the same dict.
InitTracker(as, ac, flt) ==
    /\ ~tracker.up
    /\ Idle
    /\ last.op = "load" /\ last.outcome = "ok"
    /\ tracker' = [up |-> TRUE, auto_save |-> as, auto_clean |-> ac,
                   file_filter |-> flt]
    /\ tconfig' = WithTracked(hconfig, Tracked(hconfig))
    /\ hconfig' = WithTracked(hconfig, Tracked(hconfig))
    /\ shared' = TRUE
    /\ last' = [op |-> "init_tracker"]
    /\ UNCHANGED <<fs, disk, handler_up, load, probe, scan>>

\* clean_tracked_files testing os.path.exists in place of os.path.isfile.
clean_tracked_files_Exists(f, m) ==
    [k \in {j \in DOMAIN m : Exists(f, j)} |-> m[k]]

\* Tracker.clean_tracked_files on mapping m: the records whose key is an
\* existing regular file.
clean_tracked_files(f, m) ==
    [k \in {j \in DOMAIN m : IsFile(f, j)} |-> m[k]]

\* export_config cleaning whatever the auto_clean flag says.
prepare_for_export_Always(f, m, auto_clean) == clean_tracked_files(f, m)

\* The mapping export_config persists: prepare_for_export when auto_clean.
prepare_for_export(f, m, auto_clean) ==
    IF auto_clean THEN clean_tracked_files(f, m) ELSE m

\* export_config writing the configuration without cleaning it.
ExportFrom_NoClean(m, w) ==
    /\ tconfig' = WithTracked(tconfig, m)
    /\ hconfig' = IF shared THEN WithTracked(tconfig, m) ELSE hconfig
    /\ disk' = Written(disk, write_config(WithTracked(tconfig, m)), w)

\* export_config writing the configuration before it cleans it.
ExportFrom_WriteBeforeClean(m, w) ==
    LET m1 == prepare_for_export(fs, m, tracker.auto_clean)
        c1 == WithTracked(tconfig, m1)
    IN  /\ tconfig' = c1
        /\ hconfig' = IF shared THEN c1 ELSE hconfig
        /\ disk' = Written(disk, write_config(WithTracked(tconfig, m)), w)

\* Tracker.export_config() with the mapping at m: the mapping is cleaned in
\* memory, then the whole configuration is written.
ExportFrom(m, w) ==
    LET m1 == prepare_for_export(fs, m, tracker.auto_clean)
        c1 == WithTracked(tconfig, m1)
    IN  /\ tconfig' = c1
        /\ hconfig' = IF shared THEN c1 ELSE hconfig
        /\ disk' = Written(disk, write_config(c1), w)

\* The wrapper exporting whatever the auto_save flag says.
AutoExport_Always(m, w) == ExportFrom(m, w)

\* The wrapper undoing the method's change when the export fails.
AutoExport_RollsBack(m, w) ==
    IF tracker.auto_save /\ w = "ok"
    THEN ExportFrom(m, w)
    ELSE /\ ~tracker.auto_save => w = "ok"
         /\ UNCHANGED <<tconfig, hconfig, disk>>

\* The _auto_export_config wrapper after the wrapped method left the
\* mapping at m: export_config() when auto_save, nothing otherwise.
AutoExport(m, w) ==
    IF tracker.auto_save
    THEN ExportFrom(m, w)
    ELSE /\ w = "ok"
         /\ tconfig' = WithTracked(tconfig, m)
         /\ hconfig' = IF shared THEN WithTracked(tconfig, m) ELSE hconfig
         /\ disk' = disk

\* The wrapper exporting although the wrapped method raised.
Raised_ExportsAnyway(w) ==
    IF tracker.auto_save
    THEN ExportFrom(Tracked(tconfig), w)
    ELSE w = "ok" /\ UNCHANGED <<disk, hconfig, tconfig>>

\* The wrapped method raised: nothing is exported, nothing has changed.
Raised(w) ==
    /\ w = "ok"
    /\ UNCHANGED <<disk, hconfig, tconfig>>

CallOutcome(w) == IF w = "ok" THEN "ok" ELSE "oserror"

\* Whether the call that ends in this step dropped a record whose key was
\* in m, the mapping its body left.
Dropped(m) == DOMAIN Tracked(tconfig') # DOMAIN m

\* add_file not consulting the filter.
AddFileAccepts_NoFilter(f, flt, path) == IsFile(f, get_abspath(path))

\* Whether add_file(path, root) reaches the assignment into tracked.
AddFileAccepts(f, flt, path) ==
    IsFile(f, get_abspath(path)) /\ is_match(flt, get_abspath(path))

\* add_file leaving a record that is already tracked as it is.
add_file_KeepsFirst(f, flt, m, path, root) ==
    IF AddFileAccepts(f, flt, path)
    THEN LET file_info == get_file_info(f, get_abspath(path), root)
         IN  m @@ (file_info.m.path :> file_info)
    ELSE m

\* add_file storing the record under the path as the caller gave it.
add_file_KeyedAsGiven(f, flt, m, path, root) ==
    IF AddFileAccepts(f, flt, path)
    THEN (path :> get_file_info(f, get_abspath(path), root)) @@ m
    ELSE m

\* The body of Tracker.add_file on mapping m, when it does not raise.
add_file(f, flt, m, path, root) ==
    IF AddFileAccepts(f, flt, path)
    THEN LET file_info == get_file_info(f, get_abspath(path), root)
         IN  (file_info.m.path :> file_info) @@ m
    ELSE m

\* Tracker.add_file(path, root) under its wrapper.
AddFile(path, root, w) ==
    /\ tracker.up
    /\ Idle
    /\ LET raises == \/ ~Resolves(fs, path)
                     \/ /\ AddFileAccepts(fs, tracker.file_filter, path)
                        /\ ~InfoDefined(fs, get_abspath(path), root)
       IN  IF raises
           THEN /\ Raised(w)
                /\ last' = [op |-> "add_file", outcome |-> "invalid_path",
                            path |-> path, root |-> root, dropped |-> FALSE,
                            again |-> "no"]
           ELSE LET m == add_file(fs, tracker.file_filter, Tracked(tconfig),
                                  path, root)
                    repeat == /\ last.op = "add_file" /\ last.outcome = "ok"
                              /\ last.path = path /\ last.root = root
                IN  /\ AutoExport(m, w)
                    /\ last' = [op |-> "add_file", outcome |-> CallOutcome(w),
                                path |-> path, root |-> root, dropped |-> Dropped(m),
                                again |-> IF ~repeat THEN "no"
                                          ELSE IF m = Tracked(tconfig) THEN "same"
                                          ELSE "refreshed"]
    /\ UNCHANGED <<fs, handler_up, tracker, shared, load, probe, scan>>

\* Whether the components a are a prefix of the components b.
IsPrefixComps(a, b) == Len(a) <= Len(b) /\ SubSeq(b, 1, Len(a)) = a

\* The scan descending into subdirectories whatever `recursive` says.
ScannedFiles_WholeSubtree(f, path, recursive) ==
    IF ~IsDir(path) THEN {}
    ELSE { q \in DOMAIN f :
             f[q] > 0 /\ IsPrefixComps(AbsComps(path), AbsComps(q)) }

\* The regular files os.listdir(path) / os.walk(path) lead to, by their
\* canonical path.
ScannedFiles(f, path, recursive) ==
    IF ~IsDir(path) THEN {}
    ELSE { q \in DOMAIN f :
             /\ f[q] > 0
             /\ IsPrefixComps(AbsComps(path), AbsComps(q))
             /\ recursive \/ Len(AbsComps(q)) = Len(AbsComps(path)) + 1 }

\* OSManager.get_dir_file / recursive_get_dir_file, when they do not raise.
get_dir_file(f, path, root, recursive) ==
    [q \in ScannedFiles(f, path, recursive) |-> get_file_info(f, q, root)]

\* How the scan of add_dir ends: "ok", InvalidPathError from get_abspath
\* (of the directory, shallow scan only, or of the root inside
\* get_file_info), or the OSError of os.listdir on a regular file.
ScanOutcome(f, path, root, recursive) ==
    IF ~recursive /\ ~Resolves(f, path) THEN "invalid_path"
    ELSE IF ~recursive /\ ~IsDir(path) THEN "oserror"
    ELSE IF ScannedFiles(f, path, recursive) # {} /\ ~Resolves(f, root)
         THEN "invalid_path"
         ELSE "ok"

\* The body of Tracker.add_dir on mapping m, when the scan does not raise.
add_dir(f, flt, m, path, root, recursive) ==
    LET file_dict == get_dir_file(f, path, root, recursive)
        kept == {q \in DOMAIN file_dict : is_match(flt, q)}
    IN  [q \in kept |-> file_dict[q]] @@ m

\* Tracker.add_dir(path, root, recursive=...) under its wrapper.
AddDir(path, root, recursive, w) ==
    /\ tracker.up
    /\ Idle
    /\ LET so == ScanOutcome(fs, path, root, recursive)
       IN  IF so # "ok"
           THEN /\ Raised(w)
                /\ last' = [op |-> "add_dir", outcome |-> so, path |-> path,
                            recursive |-> recursive]
           ELSE /\ AutoExport(add_dir(fs, tracker.file_filter, Tracked(tconfig),
                                      path, root, recursive), w)
                /\ last' = [op |-> "add_dir", outcome |-> CallOutcome(w),
                            path |-> path, recursive |-> recursive]
    /\ UNCHANGED <<fs, handler_up, tracker, shared, load, probe, scan>>

\* OSManager.format_abspath's normalize(val): an existing path becomes its
\* canonical form, any other value is passed on as given.
normalize(f, val) == IF Exists(f, val) THEN get_abspath(val) ELSE val

\* The body of Tracker.remove_file on mapping m: pop(path, None) of the
\* normalised argument.
remove_file(f, m, path) ==
    [k \in DOMAIN m \ {normalize(f, path)} |-> m[k]]

\* Tracker.remove_file(path) under its two wrappers.
RemoveFile(path, w) ==
    /\ tracker.up
    /\ Idle
    /\ AutoExport(remove_file(fs, Tracked(tconfig), path), w)
    /\ last' = [op |-> "remove_file", outcome |-> CallOutcome(w), path |-> path,
                hit |-> normalize(fs, path) \in DOMAIN Tracked(tconfig),
                dropped |-> Dropped(remove_file(fs, Tracked(tconfig), path))]
    /\ UNCHANGED <<fs, handler_up, tracker, shared, load, probe, scan>>

\* An explicit Tracker.clean_tracked_files(): self.config["tracked"] is
\* rebound in the dict the handler may share.
Clean ==
    /\ tracker.up
    /\ Idle
    /\ tconfig' = WithTracked(tconfig, clean_tracked_files(fs, Tracked(tconfig)))
    /\ hconfig' = IF shared THEN tconfig' ELSE hconfig
    /\ last' = [op |-> "clean", outcome |-> "ok",
                dropped |-> Dropped(Tracked(tconfig))]
    /\ UNCHANGED <<fs, disk, handler_up, tracker, shared, load, probe, scan>>

\* An explicit Tracker.export_config().
Export(w) ==
    /\ tracker.up
    /\ Idle
    /\ ExportFrom(Tracked(tconfig), w)
    /\ last' = [op |-> "export", outcome |-> CallOutcome(w),
                dropped |-> Dropped(Tracked(tconfig))]
    /\ UNCHANGED <<fs, handler_up, tracker, shared, load, probe, scan>>

\* ------------------------------------------------------- the environment

\* Between two calls of the (single-threaded) program, other programs
\* create, rewrite and delete files.  A rewrite changes neither the
\* document file nor which paths exist, and leaves the record of a
\* preceding add_file in place: a second add_file may follow it.
CreateFile(q) ==
    /\ Idle
    /\ fs[q] = 0
    /\ fs' = [fs EXCEPT ![q] = 1]
    /\ last' = [op |-> "env"]
    /\ UNCHANGED <<disk, handler_up, hconfig, tracker, tconfig, shared, load, probe, scan>>

TouchFile(q) ==
    /\ Idle
    /\ fs[q] > 0 /\ fs[q] < MaxVer
    /\ fs' = [fs EXCEPT ![q] = @ + 1]
    /\ last' = IF last.op = "add_file" THEN last ELSE [op |-> "env"]
    /\ UNCHANGED <<disk, handler_up, hconfig, tracker, tconfig, shared, load, probe, scan>>

DeleteFile(q) ==
    /\ Idle
    /\ fs[q] > 0
    /\ fs' = [fs EXCEPT ![q] = 0]
    /\ last' = [op |-> "env"]
    /\ UNCHANGED <<disk, handler_up, hconfig, tracker, tconfig, shared, load, probe, scan>>

\* Another writer replaces or deletes the document file, possibly between
\* two reads of a safe_read_config call.
ExternalWrite(d) ==
    /\ disk # d
    /\ disk' = d
    /\ load' = IF Idle THEN load ELSE [load EXCEPT !.ext = TRUE]
    /\ last' = IF Idle THEN [op |-> "env"] ELSE last
    /\ UNCHANGED <<fs, handler_up, hconfig, tracker, tconfig, shared, probe, scan>>

Next ==
    \/ \E w \in WriteOutcomes : Construct(w)
    \/ \E n \in 0..MaxRetries : StartLoad(n)
    \/ \E w \in WriteOutcomes : LoadStep(w)
    \/ \E w \in WriteOutcomes : SaveLoaded(w)
    \/ \E as \in BOOLEAN, ac \in BOOLEAN, flt \in Filters : InitTracker(as, ac, flt)
    \/ \E p \in AddFilePaths, r \in Roots, w \in WriteOutcomes : AddFile(p, r, w)
    \/ \E p \in AddDirPaths, r \in Roots, rc \in BOOLEAN, w \in WriteOutcomes :
          AddDir(p, r, rc, w)
    \/ \E p \in RemovePaths, w \in WriteOutcomes : RemoveFile(p, w)
    \/ Clean
    \/ \E w \in WriteOutcomes : Export(w)
    \/ \E q \in FilePaths : CreateFile(q)
    \/ \E q \in RewrittenPaths : TouchFile(q)
    \/ \E q \in FilePaths : DeleteFile(q)
    \/ \E d \in ExternalDocs \cup {FileAbsent} : ExternalWrite(d)

Spec == Init /\ [][Next]_vars


\* ------------------------------------- validate_config_structure alone

\* A key the raw mapping does not hold.
Missing == [missing |-> TRUE]

\* Entries a raw "tracked" dict may hold: a record under a str key, a
\* number under a str key, and a record under a key that is not a str.
RawEntries ==
    { << <<"/", "d", "/", "a">>, HandRecord(<<"/", "d", "/", "a">>, <<"a">>) >>,
      << <<"x">>, Scalar("int", 1) >>,
      << <<"#int", "7">>, HandRecord(<<"/", "d", "/", "s", "/", "x">>, <<"x">>) >> }

\* The dict holding the entries es.
DictOf(es) ==
    Dict([k \in {e[1] : e \in es} |-> (CHOOSE e \in es : e[1] = k)[2]])

\* Values of the raw mapping's keys "tracked", "extra" and "version".
RawTracked == {Missing, Scalar("list", 0)} \cup {DictOf(es) : es \in SUBSET RawEntries}
RawExtra == {Missing, Scalar("str", 1)}
RawVersion == {Missing, Scalar("int", 2), Scalar("bool", 1), Scalar("str", 2)}

\* The raw mapping with the given values, missing keys left out.
RawDoc(t, e, v) ==
    LET all == [tracked |-> t, extra |-> e, version |-> v]
    IN  [k \in {j \in DOMAIN all : all[j] # Missing} |-> all[k]]

\* Templates: the argument left out, the default, a template with a second
\* key of type int, and the empty template.
Templates ==
    { NoTemplate,
      get_default_config,
      [tracked |-> Dict(EmptyMap), version |-> Scalar("int", 1)],
      EmptyMap }

\* One call of validate_config_structure(raw, template).
Validate(raw, template) ==
    /\ probe' = [fn |-> "validate", raw |-> raw, template |-> template,
                 out |-> validate_config_structure(raw, template)]
    /\ UNCHANGED <<fs, disk, handler_up, hconfig, tracker, tconfig, shared, load, last, scan>>

ValidateInit ==
    /\ fs = [q \in FilePaths |-> 1]
    /\ disk = FileAbsent
    /\ handler_up = FALSE
    /\ hconfig = get_default_config
    /\ tracker = NoTracker
    /\ tconfig = get_default_config
    /\ shared = FALSE
    /\ load = NoLoad
    /\ last = [op |-> "none"]
    /\ probe = NoProbe
    /\ scan = NoScan

ValidateNext ==
    \E t \in RawTracked, e \in RawExtra, v \in RawVersion, tpl \in Templates :
        Validate(RawDoc(t, e, v), tpl)

SpecValidate == ValidateInit /\ [][ValidateNext]_vars


\* ------------------------------------------------------------- properties

\* The record under key p of mapping m names p as its path.
Agrees(m, p) == "path" \in DOMAIN m[p].m /\ m[p].m.path = p

Mutators == {"add_file", "add_dir", "remove_file", "export"}

\* C1 as stated: after any add_file, add_dir, remove_file or export, every
\* tracked key equals the path field of its record, whatever document the
\* Tracker was built from.
C1_KeyPathAgreement ==
    (tracker.up /\ last.op \in Mutators) =>
        \A p \in DOMAIN Tracked(tconfig) : Agrees(Tracked(tconfig), p)

\* C1 amended: after any step of a Tracker, every record either names its
\* key as its path or is a record that was already tracked, unchanged,
\* before the step: the operations write only agreeing records and alter no
\* other, so agreement of the loaded document is kept.
C1_MutatorsKeepAgreement ==
    [][(tracker.up /\ tracker'.up) =>
          \A p \in DOMAIN Tracked(tconfig') :
              \/ Agrees(Tracked(tconfig'), p)
              \/ /\ p \in DOMAIN Tracked(tconfig)
                 /\ Tracked(tconfig')[p] = Tracked(tconfig)[p]]_vars

\* C1's case: add_dir has returned on a Tracker built from the hand-edited
\* document; a record it wrote agrees, the hand-written one does not.
C1_Witness ==
    /\ tracker.up
    /\ last.op = "add_dir" /\ last.outcome = "ok"
    /\ \E p \in DOMAIN Tracked(tconfig) : Agrees(Tracked(tconfig), p)
    /\ \E p \in DOMAIN Tracked(tconfig) : ~Agrees(Tracked(tconfig), p)

\* C2 as stated: a safe_read_config(retries >= 2) that met malformed JSON,
\* with no other writer during the call and no refused write, returns
\* {"tracked": {}} and leaves the default template in the file.
C2_RecoveryWritesTemplate ==
    (/\ last.op = "load" /\ last.n >= 2 /\ last.perr >= 1
     /\ ~last.ext /\ last.outcome # "oserror") =>
        /\ last.outcome = "ok"
        /\ hconfig = get_default_config
        /\ disk = json_write(get_default_config)

\* The "tracked" mapping the document file holds is m.
DiskTracks(m) ==
    /\ disk.st = "json"
    /\ IsDictVal(disk.val)
    /\ "tracked" \in DOMAIN disk.val.m
    /\ disk.val.m["tracked"] = Dict(m)

\* C3: with auto_save, right after add_file, add_dir or remove_file has
\* returned without raising, the file's tracked mapping is the Tracker's.
C3_AutoSavePersistsMemory ==
    (/\ tracker.up /\ tracker.auto_save
     /\ last.op \in {"add_file", "add_dir", "remove_file"}
     /\ last.outcome = "ok") =>
        DiskTracks(Tracked(tconfig))

\* C3's case: an auto-saving remove_file removed a record, the export
\* dropped a stale one too, and records remain.
C3_Witness ==
    /\ tracker.up /\ tracker.auto_save
    /\ last.op = "remove_file" /\ last.outcome = "ok"
    /\ last.hit /\ last.dropped
    /\ DOMAIN Tracked(tconfig) # {}
    /\ DiskTracks(Tracked(tconfig))


\* The records of mapping m whose key is an existing regular file.
LiveRecords(m) == [k \in {j \in DOMAIN m : IsFile(fs, j)} |-> m[k]]

\* What a call that changes no record by itself leaves in tracked: the
\* mapping as it was, less the stale records when the call's auto-save
\* cleans.
AfterIdleCall(m) ==
    IF tracker.auto_save /\ tracker.auto_clean THEN LiveRecords(m) ELSE m

\* C4 as stated: remove_file of a path that is no key of tracked (and whose
\* write, if any, is not refused) does not raise and leaves tracked as it
\* was, whatever the flags and whichever tracked files still exist.
C4_RemoveUntrackedIsNoOp ==
    [][(/\ last'.op = "remove_file"
        /\ normalize(fs, last'.path) \notin DOMAIN Tracked(tconfig)
        /\ RemoveFile(last'.path, "ok"))
              => /\ last'.outcome = "ok"
                 /\ Tracked(tconfig') = Tracked(tconfig)]_vars

\* C4 amended: remove_file of a path that is no key of tracked adds and
\* alters no record and keeps every record whose file still exists; the
\* stale records are dropped when auto_save and auto_clean are both set and
\* kept otherwise; without auto_save it cannot raise and writes nothing,
\* and a call that raises has written nothing.
C4_RemoveUntrackedKeepsLive ==
    [][(/\ last'.op = "remove_file"
        /\ normalize(fs, last'.path) \notin DOMAIN Tracked(tconfig)
        /\ \E w \in WriteOutcomes : RemoveFile(last'.path, w))
              => /\ Tracked(tconfig') = AfterIdleCall(Tracked(tconfig))
                 /\ ~tracker.auto_save => (last'.outcome = "ok" /\ disk' = disk)
                 /\ last'.outcome # "ok" => disk' = disk]_vars

\* C4's case: remove_file of an untracked path has returned; its export
\* dropped a stale record and kept another.
C4_Witness ==
    /\ tracker.up /\ tracker.auto_save /\ tracker.auto_clean
    /\ last.op = "remove_file" /\ last.outcome = "ok"
    /\ ~last.hit /\ last.dropped
    /\ DOMAIN Tracked(tconfig) # {}

\* add_file(p) finds p to be a directory, or a regular file the filter
\* rejects.
SkippedByAddFile(p) ==
    \/ IsDir(p)
    \/ IsFile(fs, p) /\ ~is_match(tracker.file_filter, AbsPath(p))

\* C5 as stated: add_file on a directory or on a filtered-out regular file
\* raises nothing and leaves tracked as it was, whatever the flags.
C5_SkippedAddIsNoOp ==
    [][(/\ last'.op = "add_file"
        /\ SkippedByAddFile(last'.path)
        /\ AddFile(last'.path, last'.root, "ok"))
              => /\ last'.outcome = "ok"
                 /\ Tracked(tconfig') = Tracked(tconfig)]_vars

\* C5 amended: add_file on a directory or on a filtered-out regular file
\* adds and alters no record and keeps every record whose file still
\* exists; the stale records are dropped when auto_save and auto_clean are
\* both set and kept otherwise; without auto_save it cannot raise.
C5_SkippedAddKeepsLive ==
    [][(/\ last'.op = "add_file"
        /\ SkippedByAddFile(last'.path)
        /\ \E w \in WriteOutcomes : AddFile(last'.path, last'.root, w))
              => /\ Tracked(tconfig') = AfterIdleCall(Tracked(tconfig))
                 /\ ~tracker.auto_save => (last'.outcome = "ok" /\ disk' = disk)
                 /\ last'.outcome # "invalid_path"]_vars

\* C5's case: add_file on an existing regular file that the filter rejects
\* has returned; no record of it exists, a stale record was dropped and
\* another kept.
C5_Witness ==
    /\ tracker.up
    /\ last.op = "add_file" /\ last.outcome = "ok"
    /\ IsFile(fs, last.path)
    /\ ~is_match(tracker.file_filter, AbsPath(last.path))
    /\ AbsPath(last.path) \notin DOMAIN Tracked(tconfig)
    /\ last.dropped
    /\ DOMAIN Tracked(tconfig) # {}

\* C6 as stated (a refused template write aside): safe_read_config(n)
\* reads at most n times, ends in the RuntimeError exactly when n reads
\* all met a JSONDecodeError, and a read that parses returns a document.
C6_LoadAttempts ==
    (last.op = "load" /\ last.outcome # "oserror") =>
        /\ last.reads <= last.n
        /\ last.outcome = "exhausted" <=> (last.reads = last.n /\ last.perr = last.n)
        /\ last.parsed => last.outcome = "ok"

\* C6 amended: at most n reads; the RuntimeError exactly when n reads all
\* met a JSONDecodeError and every template write succeeded; a read that
\* parses ends the loop, with the document returned when the content is a
\* mapping and with validation's ValueError when it is not.
C6_LoadAttemptsAmended ==
    (last.op = "load") =>
        /\ last.reads <= last.n
        /\ last.perr <= last.reads
        /\ last.outcome = "exhausted" <=>
              (last.reads = last.n /\ last.perr = last.n /\ last.outcome # "oserror")
        /\ last.parsed <=> last.outcome \in {"ok", "valueerror"}
        /\ last.parsed =>
              /\ disk.st = "json"
              /\ last.outcome = "ok" <=> IsDictVal(disk.val)

\* C6's case: a safe_read_config(2) whose two reads both met malformed
\* text (another writer spoilt the file again before the second).
C6_Witness ==
    /\ last.op = "load" /\ last.n = 2
    /\ last.outcome = "exhausted" /\ last.reads = 2 /\ last.perr = 2

\* C8: write_config of the document safe_read_config returned, then
\* safe_read_config again (at least one read allowed, no other writer in
\* between): the second call returns a document equal to the first's.
C8_RoundTrip ==
    (last.op = "load" /\ last.first.some /\ ~last.ext /\ last.n >= 1) =>
        /\ last.outcome = "ok"
        /\ hconfig = last.first.doc

\* C8's case: the round trip has been made on a document with a record.
C8_Witness ==
    /\ last.op = "load" /\ last.first.some /\ ~last.ext /\ last.n >= 1
    /\ last.outcome = "ok"
    /\ DOMAIN Tracked(hconfig) # {}

\* C9 as stated: clean_tracked_files keeps a record if and only if its
\* path still exists on disk.
C9_CleanKeepsExisting ==
    [][(last'.op = "clean" /\ Clean) =>
          \A p \in DOMAIN Tracked(tconfig) :
              p \in DOMAIN Tracked(tconfig') <=> Exists(fs, p)]_vars

\* C9 amended: clean_tracked_files keeps a record, unchanged, if and only
\* if its path is an existing regular file.
C9_CleanKeepsRegularFiles ==
    [][(last'.op = "clean" /\ Clean) =>
          /\ DOMAIN Tracked(tconfig') =
                {p \in DOMAIN Tracked(tconfig) : IsFile(fs, p)}
          /\ \A p \in DOMAIN Tracked(tconfig') :
                Tracked(tconfig')[p] = Tracked(tconfig)[p]]_vars

\* C9's case: clean_tracked_files has dropped a record and kept another.
C9_Witness ==
    /\ tracker.up
    /\ last.op = "clean" /\ last.dropped
    /\ DOMAIN Tracked(tconfig) # {}

\* C10: a second add_file of the same accepted regular file with the same
\* root, the first having returned and no file created or deleted since,
\* leaves the same keys tracked, the file's record under its canonical path
\* holding the metadata read by the second call, every other record as it
\* was.
C10_AddFileTwice ==
    [][(/\ last.op = "add_file" /\ last.outcome = "ok"
        /\ last'.op = "add_file"
        /\ last'.path = last.path /\ last'.root = last.root
        /\ IsFile(fs, last.path)
        /\ is_match(tracker.file_filter, AbsPath(last.path))
        /\ AddFile(last.path, last.root, "ok"))
              => LET k == AbsPath(last.path)
                 IN  /\ DOMAIN Tracked(tconfig') = DOMAIN Tracked(tconfig)
                     /\ k \in DOMAIN Tracked(tconfig')
                     /\ Tracked(tconfig')[k] = get_file_info(fs, k, last.root)
                     /\ \A j \in DOMAIN Tracked(tconfig) \ {k} :
                           Tracked(tconfig')[j] = Tracked(tconfig)[j]]_vars

\* C10's case: the second add_file has returned and replaced the record
\* of the first with newer metadata.
C10_Witness ==
    /\ tracker.up
    /\ last.op = "add_file" /\ last.outcome = "ok"
    /\ last.again = "refreshed"
    /\ Cardinality(DOMAIN Tracked(tconfig)) >= 2

\* C7 as stated, on one call validate_config_structure(raw, template): the
\* result has exactly the template's keys; a key raw lacks, or holds with a
\* value of another type than the default's, has the default; a dict-typed
\* key keeps exactly raw's entries with a str key and a dict value; any
\* other key keeps raw's value.
C7_ValidateShape ==
    (probe.fn = "validate") =>
        LET tpl == IF probe.template = NoTemplate THEN get_default_config
                   ELSE probe.template
            raw == probe.raw
            D == probe.out
        IN  /\ DOMAIN D = DOMAIN tpl
            /\ \A key \in DOMAIN tpl :
                  D[key] =
                    IF key \notin DOMAIN raw THEN tpl[key]
                    ELSE IF ~(\/ raw[key].t = tpl[key].t
                              \/ raw[key].t = "bool" /\ tpl[key].t = "int")
                         THEN tpl[key]
                    ELSE IF tpl[key].t = "dict"
                         THEN Dict([k \in {j \in DOMAIN raw[key].m :
                                             /\ j[1] # "#int"
                                             /\ raw[key].m[j].t = "dict"}
                                      |-> raw[key].m[k]])
                    ELSE raw[key]

\* ------------------------------------------------------ FileFilter alone

\* The longest list filter_files is called with.
MaxFiles == 2

\* FileFilter.filter_files(files): the files the pattern matches, in order.
filter_files(flt, files) ==
    IF flt.pattern = <<>> THEN files
    ELSE SelectSeq(files, LAMBDA file : RegexMatch(flt.pattern, file))

\* The filters and paths of the calls under test.
FilterConfigs ==
    Filters \cup { [pattern |-> <<"a">>, only_match_filename |-> FALSE],
                   [pattern |-> <<"/">>, only_match_filename |-> FALSE],
                   [pattern |-> <<"/">>, only_match_filename |-> TRUE] }

FilteredPaths ==
    { <<"/", "d", "/", "a">>, <<"/", "d", "/", "s", "/", "x">>, <<"a">>, <<"z">> }

FileLists == UNION { [1..n -> FilteredPaths] : n \in 0..MaxFiles }

\* One call of filter_files(files) on a filter flt.
FilterFiles(flt, files) ==
    /\ probe' = [fn |-> "filter_files", flt |-> flt, files |-> files,
                 out |-> filter_files(flt, files)]
    /\ UNCHANGED <<fs, disk, handler_up, hconfig, tracker, tconfig, shared, load, last, scan>>

FilterNext ==
    \E flt \in FilterConfigs, files \in FileLists : FilterFiles(flt, files)

SpecFilter == ValidateInit /\ [][FilterNext]_vars


\* ------------------------------------------- add_dir, one entry at a time

\* The scan of add_dir taken apart into its listings, tests and metadata
\* reads, with other programs deleting and creating files in between.
\* AddDir of Spec is the scan that no other program interferes with.

\* The directories os.walk(path) lists, a directory before those in it;
\* the one directory os.listdir lists when the scan is not recursive.
WalkDirs(path, recursive) ==
    LET under == IF recursive
                 THEN {d \in Dirs : IsPrefixComps(AbsComps(path), AbsComps(d))}
                 ELSE {AbsPath(path)}
    IN  CHOOSE sq \in [1..Cardinality(under) -> under] :
            /\ \A d \in under : \E i \in DOMAIN sq : sq[i] = d
            /\ \A i, j \in DOMAIN sq :
                  i < j => Len(AbsComps(sq[i])) <= Len(AbsComps(sq[j]))

\* The regular files a listing of directory d shows.
Listing(f, d) ==
    { q \in DOMAIN f :
        /\ f[q] > 0
        /\ IsPrefixComps(AbsComps(d), AbsComps(q))
        /\ Len(AbsComps(q)) = Len(AbsComps(d)) + 1 }

NoEntry == <<>>
Scanning == scan.pc = "walk"

\* The record of an add_dir call that has ended; lost tells whether an
\* entry a listing had shown was gone when the scan came to it.
ScanResult(outcome, path, recursive, lost) ==
    [op |-> "add_dir", outcome |-> outcome, path |-> path,
     recursive |-> recursive, lost |-> lost]

\* add_dir(path, root, recursive=...) is entered: get_abspath and
\* os.listdir raise for a shallow scan of what is no directory, os.walk
\* yields nothing for it.
ScanBegin(path, root, recursive) ==
    /\ tracker.up
    /\ ~Scanning
    /\ IF ~recursive /\ ~Resolves(fs, path)
       THEN /\ last' = ScanResult("invalid_path", path, recursive, FALSE)
            /\ scan' = NoScan
       ELSE IF ~recursive /\ ~IsDir(path)
       THEN /\ last' = ScanResult("oserror", path, recursive, FALSE)
            /\ scan' = NoScan
       ELSE /\ last' = [op |-> "scanning"]
            /\ scan' = [pc |-> "walk", path |-> path, root |-> root,
                        recursive |-> recursive,
                        dirs |-> IF IsDir(path) THEN WalkDirs(path, recursive)
                                 ELSE <<>>,
                        names |-> {}, cur |-> NoEntry, found |-> EmptyMap,
                        lost |-> FALSE]
    /\ UNCHANGED <<fs, disk, handler_up, hconfig, tracker, tconfig, shared, load, probe>>

\* os.listdir(path), or the next directory of os.walk: the names of the
\* files that are in it now.
ScanList ==
    /\ Scanning
    /\ scan.names = {} /\ scan.cur = NoEntry /\ scan.dirs # <<>>
    /\ scan' = [scan EXCEPT !.names = Listing(fs, Head(scan.dirs)),
                            !.dirs = Tail(scan.dirs)]
    /\ UNCHANGED <<fs, disk, handler_up, hconfig, tracker, tconfig, shared, load,
                   last, probe>>

\* os.path.isfile(full_path) on a listed name: an entry that is gone is
\* passed over.
ScanTest(q) ==
    /\ Scanning
    /\ scan.cur = NoEntry /\ q \in scan.names
    /\ scan' = IF IsFile(fs, q)
               THEN [scan EXCEPT !.names = @ \ {q}, !.cur = q]
               ELSE [scan EXCEPT !.names = @ \ {q}, !.lost = TRUE]
    /\ UNCHANGED <<fs, disk, handler_up, hconfig, tracker, tconfig, shared, load,
                   last, probe>>

\* FileInfoCollector.get_file_info(full_path, root) on the entry that
\* passed the test: get_abspath raises InvalidPathError when the entry has
\* gone since, and the exception leaves add_dir.
ScanInfo ==
    /\ Scanning
    /\ scan.cur # NoEntry
    /\ IF InfoDefined(fs, scan.cur, scan.root)
       THEN /\ scan' = [scan EXCEPT
                          !.cur = NoEntry,
                          !.found = (scan.cur :> get_file_info(fs, scan.cur, scan.root)) @@ @]
            /\ last' = last
       ELSE /\ scan' = NoScan
            /\ last' = ScanResult("invalid_path", scan.path, scan.recursive, TRUE)
    /\ UNCHANGED <<fs, disk, handler_up, hconfig, tracker, tconfig, shared, load,
                   probe>>

\* The scan is over: the filter, tracked.update(file_dict), and the
\* wrapper's export.
ScanEnd(w) ==
    /\ Scanning
    /\ scan.names = {} /\ scan.cur = NoEntry /\ scan.dirs = <<>>
    /\ LET kept == {q \in DOMAIN scan.found : is_match(tracker.file_filter, q)}
           file_dict == [q \in kept |-> scan.found[q]]
       IN  AutoExport(file_dict @@ Tracked(tconfig), w)
    /\ last' = ScanResult(CallOutcome(w), scan.path, scan.recursive, scan.lost)
    /\ scan' = NoScan
    /\ UNCHANGED <<fs, handler_up, tracker, shared, load, probe>>

\* Another program deletes or creates a file, during a scan or between two.
ScanDelete(q) ==
    /\ fs[q] > 0
    /\ fs' = [fs EXCEPT ![q] = 0]
    /\ UNCHANGED <<disk, handler_up, hconfig, tracker, tconfig, shared, load,
                   last, probe, scan>>

ScanCreate(q) ==
    /\ fs[q] = 0
    /\ fs' = [fs EXCEPT ![q] = 1]
    /\ UNCHANGED <<disk, handler_up, hconfig, tracker, tconfig, shared, load,
                   last, probe, scan>>

\* A Tracker on the default document, the files of the tree in place.
ScanInit ==
    /\ fs = [q \in FilePaths |-> 1]
    /\ disk = json_write(get_default_config)
    /\ handler_up = TRUE
    /\ hconfig = get_default_config
    /\ \E as \in BOOLEAN, ac \in BOOLEAN, flt \in Filters :
          tracker = [up |-> TRUE, auto_save |-> as, auto_clean |-> ac,
                     file_filter |-> flt]
    /\ tconfig = get_default_config
    /\ shared = TRUE
    /\ load = NoLoad
    /\ last = [op |-> "none"]
    /\ probe = NoProbe
    /\ scan = NoScan

ScanNext ==
    \/ \E p \in AddDirPaths, r \in Roots, rc \in BOOLEAN : ScanBegin(p, r, rc)
    \/ ScanList
    \/ \E q \in FilePaths : ScanTest(q)
    \/ ScanInfo
    \/ \E w \in WriteOutcomes : ScanEnd(w)
    \/ \E q \in FilePaths : ScanDelete(q)
    \/ \E q \in FilePaths : ScanCreate(q)

SpecScan == ScanInit /\ [][ScanNext]_vars


\* ---------------------------------------------------- further properties

\* C11 as stated: after remove_file(p) has returned, the canonical absolute
\* form of p is no key of tracked, whether p is relative or absolute,
\* whether or not the file still exists, whatever the flags.
C11_RemovedKeyAbsent ==
    (tracker.up /\ last.op = "remove_file" /\ last.outcome = "ok") =>
        AbsPath(last.path) \notin DOMAIN Tracked(tconfig)

\* C12 as stated: filter_files(files) is exactly the files for which
\* is_match holds, in input order, for every filter and every list.
C12_ApplyIsMatches ==
    (probe.fn = "filter_files") =>
        probe.out = SelectSeq(probe.files, LAMBDA p : is_match(probe.flt, p))

\* The step is the one in which a call of op ends: it leaves the call's
\* record in `last` and touches no file (a file rewritten after an
\* add_file leaves that call's record in place).
CallEnds(op) == last'.op = op /\ fs' = fs

\* The existing regular files directly in directory path, or anywhere
\* below it; none when path is no directory.
FilesUnder(path, recursive) ==
    { q \in FilePaths :
        /\ IsDir(path)
        /\ fs[q] > 0
        /\ IsPrefixComps(AbsComps(path), AbsComps(q))
        /\ recursive \/ Len(AbsComps(q)) = Len(AbsComps(path)) + 1 }

\* The tracked mapping overridden by the records of the files under path
\* that pass the filter.
MergedScan(path, root, recursive) ==
    LET kept == {q \in FilesUnder(path, recursive) : is_match(tracker.file_filter, q)}
    IN  [q \in kept |-> get_file_info(fs, q, root)] @@ Tracked(tconfig)

\* C13 as stated: add_dir(path, root, recursive) on a directory leaves
\* tracked as the previous mapping overridden by the records of the files
\* directly under path (of the whole subtree when recursive) that pass the
\* filter; records of keys outside the scan are kept.
C13_AddDirMerges ==
    [][\A r \in Roots :
          (/\ CallEnds("add_dir")
           /\ last'.outcome = "ok" /\ IsDir(last'.path))
              => Tracked(tconfig') =
                    MergedScan(last'.path, r, last'.recursive)]_vars

\* C13 amended: the same merge, and records of keys outside the scan are
\* kept unless auto_save and auto_clean are both set, when the export that
\* follows drops those whose key is no existing regular file.
C13_AddDirMergesThenCleans ==
    [][\A r \in Roots :
          (/\ CallEnds("add_dir")
           /\ last'.outcome = "ok" /\ IsDir(last'.path))
              => Tracked(tconfig') =
                    AfterIdleCall(MergedScan(last'.path, r, last'.recursive))]_vars

\* C13's case: a recursive add_dir of the working directory has tracked
\* the file directly in it and the file of its subdirectory, the latter
\* with its path relative to the root.
C13_Witness ==
    /\ tracker.up
    /\ last.op = "add_dir" /\ last.outcome = "ok"
    /\ last.recursive /\ last.path = <<".">>
    /\ DOMAIN Tracked(tconfig) = FilePaths
    /\ Tracked(tconfig)[<<"/", "d", "/", "s", "/", "x">>].m.rel_path = <<"x">>

\* C14: constructing a ConfigFileHandler (its write, if any, succeeding)
\* happens before any read and leaves a document file: the default
\* {tracked: {}} when none existed, the existing file untouched otherwise,
\* well-formed or not.
C14_ConstructLeavesDocument ==
    [][\A w \in WriteOutcomes :
          (last'.op = "construct" /\ last'.outcome = "ok" /\ Construct(w))
              => /\ disk' = IF disk.st = "absent"
                            THEN json_write(get_default_config)
                            ELSE disk
                 /\ disk'.st # "absent"
                 /\ load' = NoLoad /\ last.op \notin {"load", "loading"}]_vars

\* C14's case: a handler has been constructed where no file existed, and
\* the file now holds the default document.
C14_Witness ==
    /\ handler_up
    /\ last.op = "construct" /\ last.outcome = "ok" /\ ~last.existed
    /\ disk = json_write(get_default_config)

\* C15 as stated: an add_dir during whose scan a listed entry was found to
\* have disappeared does not end in the scan's error: the entry is passed
\* over and the call goes on to its end.
C15_ScanSkipsVanished ==
    (last.op = "add_dir" /\ last.lost) => last.outcome # "invalid_path"

\* C16: a pass of safe_read_config whose read meets no JSONDecodeError
\* ends the call in that pass, with the file left as it is: a missing file
\* and a parsed value that is no mapping raise (the error of the read, the
\* ValueError of validation) with the handler's config unchanged, no
\* further read is made and no template is written; a template write that
\* fails ends the call the same way.
C16_OtherErrorsAbort ==
    [][(/\ load.pc = "run" /\ load.i < load.n
        /\ load'.pc = "idle" \/ load'.i = load.i + 1)
          => IF disk.st = "malformed"
             THEN load'.pc = "idle" =>
                     /\ last'.op = "load" /\ last'.outcome = "oserror"
                     /\ disk' = disk /\ hconfig' = hconfig
             ELSE /\ load' = NoLoad
                  /\ disk' = disk
                  /\ last'.op = "load"
                  /\ last'.reads = load.i + 1
                  /\ last'.reads = last'.perr + 1
                  /\ disk.st = "absent" =>
                        (last'.outcome = "ioerror" /\ hconfig' = hconfig)
                  /\ (disk.st = "json" /\ ~IsDictVal(disk.val)) =>
                        (last'.outcome = "valueerror" /\ hconfig' = hconfig)]_vars

\* C16's case: a safe_read_config whose first read met malformed text and
\* whose second read parsed a list has ended in the ValueError, the list
\* still in the file.
C16_Witness ==
    /\ last.op = "load" /\ last.outcome = "valueerror"
    /\ last.reads = 2 /\ last.perr = 1
    /\ disk = FileJson(Scalar("list", 0))

\* A valid document: the key tracked alone, holding a mapping of str keys
\* to mappings.
ValidDocument(c) ==
    /\ DOMAIN c = {"tracked"}
    /\ IsDictVal(c["tracked"])
    /\ \A k \in DOMAIN c["tracked"].m :
          IsStrKey(k) /\ IsDictVal(c["tracked"].m[k])

\* C17 as stated: whatever JSON value the read parsed, a mapping or not,
\* safe_read_config returns a valid document.
C17_ValidationNeverRejects ==
    (last.op = "load" /\ last.parsed) =>
        (last.outcome = "ok" /\ ValidDocument(hconfig))

\* C17 amended: when the read parsed a mapping, whatever its content,
\* safe_read_config returns a valid document; when it parsed any other
\* JSON value the call fails with validation's ValueError.
C17_ValidationHealsMappings ==
    (last.op = "load" /\ last.parsed) =>
        IF IsDictVal(disk.val)
        THEN last.outcome = "ok" /\ ValidDocument(hconfig)
        ELSE last.outcome = "valueerror"

\* C17's case: the hand-edited document, with a number among its tracked
\* entries and an unknown key, has been loaded; the record is all that is
\* left of it.
C17_Witness ==
    /\ last.op = "load" /\ last.parsed /\ last.outcome = "ok"
    /\ disk = HandDoc
    /\ DOMAIN hconfig = {"tracked"}
    /\ DOMAIN Tracked(hconfig) = {<<"/", "d", "/", "s">>}

\* C18: an export_config whose write succeeds cleans before it saves.
\* With auto_clean the records kept are exactly those whose key is an
\* existing regular file, unchanged; without auto_clean the mapping in
\* memory is left as it is, stale records included; either way the file
\* then holds the mapping that is in memory.
C18_ExportCleansThenSaves ==
    [][(last'.op = "export" /\ last'.outcome = "ok" /\ Export("ok"))
          => /\ (DiskTracks(Tracked(tconfig)))'
             /\ IF tracker.auto_clean
                THEN /\ DOMAIN Tracked(tconfig') =
                           {p \in DOMAIN Tracked(tconfig) : IsFile(fs, p)}
                     /\ \A p \in DOMAIN Tracked(tconfig') :
                           Tracked(tconfig')[p] = Tracked(tconfig)[p]
                ELSE Tracked(tconfig') = Tracked(tconfig)]_vars

\* C18's case: an export_config with auto_clean has dropped a stale
\* record, kept another, and the file holds what is left in memory.
C18_Witness ==
    /\ tracker.up /\ tracker.auto_clean
    /\ last.op = "export" /\ last.outcome = "ok" /\ last.dropped
    /\ DOMAIN Tracked(tconfig) # {}
    /\ DiskTracks(Tracked(tconfig))

\* C19 as stated: add_dir on a path that is no existing directory ends in
\* InvalidPathError, with recursive set or not.
C19_AddDirNeedsDirectory ==
    (tracker.up /\ last.op = "add_dir" /\ ~IsDir(last.path)) =>
        last.outcome = "invalid_path"

\* The mapping a call's body left, as export_config holds it in memory at
\* the moment it writes.
AtWrite(m) == IF tracker.auto_clean THEN LiveRecords(m) ELSE m

\* C20: when the write of an auto-save fails, the OSError leaves the same
\* add_file, add_dir or remove_file call, the file is as it was, and the
\* call's change to tracked (and the export's cleaning) stays in memory:
\* if the mapping changed and the file held the old one, file and memory
\* now differ.
C20_FailedSaveKeepsMutation ==
    [][(/\ last'.op \in {"add_file", "add_dir", "remove_file"}
        /\ last'.outcome = "oserror"
        /\ fs' = fs
        /\ last'.op = "add_dir" => (last'.recursive \/ IsDir(last'.path)))
          => /\ tracker.auto_save
             /\ disk' = disk
             /\ Tracked(tconfig') =
                  AtWrite(CASE last'.op = "add_file" ->
                                 add_file(fs, tracker.file_filter, Tracked(tconfig),
                                          last'.path, last'.root)
                            [] last'.op = "add_dir" ->
                                 MergedScan(last'.path, CHOOSE r \in Roots : TRUE,
                                            last'.recursive)
                            [] OTHER ->
                                 [k \in DOMAIN Tracked(tconfig)
                                          \ {normalize(fs, last'.path)}
                                    |-> Tracked(tconfig)[k]])
             /\ (Tracked(tconfig') # Tracked(tconfig) /\ DiskTracks(Tracked(tconfig)))
                   => ~(DiskTracks(Tracked(tconfig)))']_vars

\* C20's case: an add_file whose auto-save failed has raised; the record
\* it made is in memory and not in the file.
C20_Witness ==
    /\ tracker.up /\ tracker.auto_save
    /\ last.op = "add_file" /\ last.outcome = "oserror"
    /\ AbsPath(last.path) \in DOMAIN Tracked(tconfig)
    /\ disk.st = "json"
    /\ ~DiskTracks(Tracked(tconfig))

\* C21: add_file on a path that does not exist raises InvalidPathError,
\* and a shallow add_dir on what is no directory raises in its scan; such
\* a call leaves tracked as it was, stale records included, and exports
\* nothing: the document file and the handler's config are unchanged,
\* with auto_save set or not.
C21_FailedCallChangesNothing ==
    [][(\/ /\ last'.op = "add_file"
           /\ ~Exists(fs, last'.path)
           /\ \E w \in WriteOutcomes : AddFile(last'.path, last'.root, w)
        \/ /\ last'.op = "add_dir"
           /\ ~last'.recursive /\ ~IsDir(last'.path)
           /\ \E r \in Roots, w \in WriteOutcomes :
                 AddDir(last'.path, r, FALSE, w))
          => /\ last'.outcome \in {"invalid_path", "oserror"}
             /\ last'.op = "add_file" => last'.outcome = "invalid_path"
             /\ tconfig' = tconfig
             /\ hconfig' = hconfig
             /\ disk' = disk]_vars

\* C21's case: with auto_save and auto_clean set, add_file of a missing
\* path has raised InvalidPathError; a stale record is still tracked, so
\* no export has run.
C21_Witness ==
    /\ tracker.up /\ tracker.auto_save /\ tracker.auto_clean
    /\ last.op = "add_file" /\ last.outcome = "invalid_path"
    /\ ~Exists(fs, last.path)
    /\ \E p \in DOMAIN Tracked(tconfig) : ~IsFile(fs, p)

\* C22: without auto_save, add_file, add_dir and remove_file write nothing
\* and clean nothing: the document file is as it was, the call does not
\* fail in a write, and every record tracked before is still tracked,
\* stale or not, but the one remove_file was asked to remove; an explicit
\* export_config is what then puts the mapping in memory into the file.
C22_NoAutoSaveNoWrite ==
    [][/\ (/\ tracker.up /\ ~tracker.auto_save
           /\ \E op \in {"add_file", "add_dir", "remove_file"} : CallEnds(op))
             => /\ disk' = disk
                /\ last'.op = "add_file" => last'.outcome \in {"ok", "invalid_path"}
                /\ last'.op = "remove_file" => last'.outcome = "ok"
                /\ \A p \in DOMAIN Tracked(tconfig) :
                      \/ p \in DOMAIN Tracked(tconfig')
                      \/ last'.op = "remove_file" /\ p = normalize(fs, last'.path)
       /\ (/\ tracker.up /\ ~tracker.auto_save
           /\ last'.op = "export" /\ last'.outcome = "ok" /\ Export("ok"))
             => (DiskTracks(Tracked(tconfig)))']_vars

\* C22's case: without auto_save, an add_file has tracked a file while a
\* stale record stays tracked, and the document file holds neither change.
C22_Witness ==
    /\ tracker.up /\ ~tracker.auto_save /\ tracker.auto_clean
    /\ last.op = "add_file" /\ last.outcome = "ok"
    /\ AbsPath(last.path) \in DOMAIN Tracked(tconfig)
    /\ \E p \in DOMAIN Tracked(tconfig) : ~IsFile(fs, p)
    /\ disk.st = "json"
    /\ ~DiskTracks(Tracked(tconfig))

\* C23: a safe_read_config call that no other writer interfered with and
\* that no write failed in never raises the RuntimeError when retries >= 2,
\* whatever the file held, and overwrites the file at most once: what
\* create_template_config wrote is a JSON mapping, and a pass that reads a
\* JSON mapping returns.  With retries = 1 and a file that does not parse,
\* the call ends with the RuntimeError and the file then holds a JSON
\* mapping, on which every later pass of a call returns.
C23_RecoveryConverges ==
    [][(/\ load.pc = "run" /\ load'.pc = "idle"
        /\ last'.op = "load"
        /\ ~last'.ext
        /\ last'.outcome # "oserror")
          => /\ last'.n >= 2 => (last'.outcome # "exhausted" /\ last'.perr <= 1)
             /\ (last'.n = 1 /\ last'.perr = 1)
                   => /\ last'.outcome = "exhausted"
                      /\ disk'.st = "json" /\ IsDictVal(disk'.val)
             /\ (load.i < load.n /\ disk.st = "json" /\ IsDictVal(disk.val))
                   => (last'.outcome = "ok" /\ disk' = disk)]_vars

\* C23's case: a call with retries = 2 found a file that does not parse,
\* overwrote it, read it again and returned.
C23_Witness ==
    /\ last.op = "load" /\ last.n = 2 /\ ~last.ext
    /\ last.perr = 1 /\ last.reads = 2
    /\ last.outcome = "ok"

====
